---- MODULE Spec2Model ----
(***************************************************************************)
(* The error-simulation catalog of kjugi/gql-error: the Query schema, the  *)
(* resolver map and the life of a request, for the two server files of the *)
(* repository (src/index.ts, and the second server file kept as            *)
(* src/unnamed/part_000).                                                  *)
(*                                                                         *)
(* A resolver is a function from its argument to a result: it throws a     *)
(* value, returns a value, or awaits a timer whose rejection handler       *)
(* throws a value.  An optional value (an argument that may be missing, an *)
(* extension that may be absent) is a sequence of length 0 or 1.           *)
(***************************************************************************)
EXTENDS Integers, Sequences, FiniteSets

\* ---------------------------------------------------------------- bounds

\* Requests the model lets the server receive.
MaxRequests == 2

\* Milliseconds the model's clock runs to.
MaxTime == 2

\* The values of givenCode's code argument: missing, zero, negative, 408, 500.
CodeArgs == {<< >>, <<0>>, <<-1>>, <<408>>, <<500>>}

\* The values of requestTimeout's time argument: missing, zero, negative, 1, 2.
TimeArgs == {<< >>, <<0>>, <<-1>>, <<1>>, <<2>>}

NoArgs == {<< >>}

\* ---------------------------------------------------------------- values

\* JavaScript's !x on an argument that is an Int or missing.
Falsy(a) == a = << >> \/ a[1] = 0

\* JavaScript's a || d.
Or(a, d) == IF Falsy(a) THEN d ELSE a[1]

\* new GraphQLError(message, {extensions: {code, http: {status}}}); http is
\* optional.
GraphQLError(message, code, http) ==
    [class |-> "GraphQLError", message |-> message, code |-> <<code>>,
     status |-> http, data |-> << >>]

\* new TypeError(message): an Error with no extensions.
TypeError(message) ==
    [class |-> "TypeError", message |-> message, code |-> << >>,
     status |-> << >>, data |-> << >>]

\* new Error(message): no extensions.
Error(message) ==
    [class |-> "Error", message |-> message, code |-> << >>,
     status |-> << >>, data |-> << >>]

\* A plain object literal.
Object(payload) ==
    [class |-> "Object", message |-> "", code |-> << >>,
     status |-> << >>, data |-> <<payload>>]

\* undefined: what a field without a resolver function yields.
Undefined ==
    [class |-> "undefined", message |-> "", code |-> << >>,
     status |-> << >>, data |-> << >>]

Throw(v) == [how |-> "throw", value |-> v, delay |-> << >>]

Return(v) == [how |-> "return", value |-> v, delay |-> << >>]

\* await new Promise((_, reject) => setTimeout(reject, t)).catch(() => { throw v });
\* t is the argument as given, possibly missing.
AwaitTimeout(t, v) == [how |-> "await", value |-> v, delay |-> t]

\* ------------------------------------------------------ src/index.ts resolvers

notFound(args) ==
    Return(GraphQLError("Not found - error occured", "NOT_FOUND", << >>))

authenticationFail_wrongCode(args) ==
    Return(GraphQLError("You are not authorized to perform this action.",
                        "UNAUTHENTICATED", << >>))

authenticationFail(args) ==
    Return(GraphQLError("You are not authorized to perform this action.",
                        "FORBIDDEN", << >>))

givenCode_missingOnly(args) ==
    IF args = << >>
    THEN Throw(GraphQLError("no error code", "BAD_USER_INPUT", << >>))
    ELSE Throw(GraphQLError("error with code from arg", "BAD_REQUEST",
                            <<Or(args, 500)>>))

givenCode(args) ==
    IF Falsy(args)
    THEN Throw(GraphQLError("no error code", "BAD_USER_INPUT", << >>))
    ELSE Throw(GraphQLError("error with code from arg", "BAD_REQUEST",
                            <<Or(args, 500)>>))

requestTimeout_noCheck(args) ==
    AwaitTimeout(args, GraphQLError("Request timeout", "INTERNAL_SERVER_ERROR", << >>))

requestTimeout(args) ==
    IF Falsy(args)
    THEN Throw(GraphQLError("no error code", "BAD_USER_INPUT", << >>))
    ELSE AwaitTimeout(args, GraphQLError("Request timeout", "INTERNAL_SERVER_ERROR",
                                         << >>))

networkError_noStatus(args) ==
    Throw(GraphQLError("Request timeout", "INTERNAL_SERVER_ERROR", << >>))

networkError(args) ==
    Throw(GraphQLError("Request timeout", "INTERNAL_SERVER_ERROR", <<408>>))

other(args) == Return(TypeError("not expected type error"))

antiPattern_thrown(args) ==
    Throw(Object([body |-> [value |-> "", code |-> 404], errors |-> "null"]))

antiPattern(args) ==
    Return(Object([body |-> [value |-> "", code |-> 404], errors |-> "null"]))

gqlError(args) == Throw(GraphQLError("Custom graphql error", "GQL_ERROR", << >>))

nonGqlError(args) == Throw(Error("custom error code"))

\* The fields of type Query in src/index.ts.
typeDefs_index ==
    {"notFound", "authenticationFail", "givenCode", "requestTimeout", "other",
     "antiPattern", "gqlError", "nonGqlError", "networkError"}

\* resolvers.Query of src/index.ts: a map from field name to resolver function
\* (each function is named here and applied by Call).
resolvers_index ==
    [notFound           |-> "notFound",
     authenticationFail |-> "authenticationFail",
     givenCode          |-> "givenCode",
     requestTimeout     |-> "requestTimeout",
     networkError       |-> "networkError",
     other              |-> "other",
     antiPattern        |-> "antiPattern",
     gqlError           |-> "gqlError",
     nonGqlError        |-> "nonGqlError"]

\* ------------------------------------------- src/unnamed/part_000 resolvers

gqlError_part000(args) == Throw(GraphQLError("Custom error", "GQL_ERROR", << >>))

\* The fields of type Query in src/unnamed/part_000.
typeDefs_part000 ==
    {"notFound", "authenticationFail", "givenCode", "serviceUnavailable",
     "combinedError", "networkError", "requestTimeout", "other", "antiPattern",
     "gqlError"}

\* resolvers.Query of src/unnamed/part_000.
resolvers_part000 ==
    [notFound    |-> "notFound",
     antiPattern |-> "antiPattern",
     gqlError    |-> "gqlError_part000"]

\* The call fn(_, args) of a resolver function of either file.
Call(fn, args) ==
    CASE fn = "notFound" -> notFound(args)
      [] fn = "authenticationFail" -> authenticationFail(args)
      [] fn = "givenCode" -> givenCode(args)
      [] fn = "requestTimeout" -> requestTimeout(args)
      [] fn = "networkError" -> networkError(args)
      [] fn = "other" -> other(args)
      [] fn = "antiPattern" -> antiPattern(args)
      [] fn = "gqlError" -> gqlError(args)
      [] fn = "nonGqlError" -> nonGqlError(args)
      [] fn = "gqlError_part000" -> gqlError_part000(args)

\* ---------------------------------------------------------------- state

VARIABLES typeDefs, resolvers, requests, timers, now, running

vars == <<typeDefs, resolvers, requests, timers, now, running>>

\* The argument values a request for field op may carry.
ArgsOf(op) ==
    CASE op = "givenCode" -> CodeArgs
      [] op = "requestTimeout" -> TimeArgs
      [] OTHER -> NoArgs

\* The resolver the server runs for field op: the function registered for it,
\* or, for a field with none, one that yields undefined.
Resolve_counting(op, args) ==
    LET served == Cardinality({j \in 1..Len(requests) : requests[j].status = "settled"})
        r == IF op \in DOMAIN resolvers THEN Call(resolvers[op], args) ELSE Return(Undefined)
    IN IF served = 0 THEN r ELSE [r EXCEPT !.value.status = <<429>>]

Resolve(op, args) ==
    IF op \in DOMAIN resolvers THEN Call(resolvers[op], args) ELSE Return(Undefined)

\* setTimeout's delay: a missing delay or one below 1 is 1 ms.
Delay(d) == IF d = << >> \/ d[1] < 1 THEN 1 ELSE d[1]

\* The request after its resolver has thrown or returned: the outcome is
\* handed to the caller, and the request is over.
Settle_retry(req, how, value) ==
    [req EXCEPT !.status = IF how = "throw" THEN "received" ELSE "settled",
                !.outcomes = Append(@, [how |-> how, value |-> value])]

Settle(req, how, value) ==
    [req EXCEPT !.status = "settled",
                !.outcomes = Append(@, [how |-> how, value |-> value])]

\* The request the thread is left running once resolver call i has awaited:
\* none (0), an await hands the thread back to the event loop.
AfterAwait_blocking(i) == i

AfterAwait(i) == 0

Init ==
    /\ typeDefs = typeDefs_index
    /\ resolvers = resolvers_index
    /\ requests = << >>
    /\ timers = {}
    /\ now = 0
    /\ running = 0

Init_part000 ==
    /\ typeDefs = typeDefs_part000
    /\ resolvers = resolvers_part000
    /\ requests = << >>
    /\ timers = {}
    /\ now = 0
    /\ running = 0

\* A query for one field of type Query arrives.
Receive(op, args) ==
    /\ Len(requests) < MaxRequests
    /\ requests' = Append(requests,
                          [op |-> op, args |-> args, status |-> "received",
                           outcomes |-> << >>, elapsed |-> << >>])
    /\ UNCHANGED <<typeDefs, resolvers, timers, now, running>>

\* The server calls the field's resolver for request i.
Execute(i) ==
    /\ running = 0
    /\ requests[i].status = "received"
    /\ LET r == Resolve(requests[i].op, requests[i].args)
       IN IF r.how = "await"
          THEN /\ requests' = [requests EXCEPT ![i].status = "pending"]
               /\ timers' = timers \cup
                      {[req |-> i, start |-> now, at |-> now + Delay(r.delay),
                        value |-> r.value]}
               /\ running' = AfterAwait(i)
          ELSE /\ requests' = [requests EXCEPT ![i] = Settle(@, r.how, r.value)]
               /\ UNCHANGED <<timers, running>>
    /\ UNCHANGED <<typeDefs, resolvers, now>>

\* A timer set by setTimeout fires: the promise is rejected, the catch handler
\* throws, and the awaiting resolver throws that value.
TimerFire(tm) ==
    /\ running = 0
    /\ now >= tm.at
    /\ timers' = timers \ {tm}
    /\ requests' = [requests EXCEPT
                      ![tm.req] = [Settle(@, "throw", tm.value)
                                     EXCEPT !.elapsed = <<now - tm.start>>]]
    /\ UNCHANGED <<typeDefs, resolvers, now, running>>

\* A millisecond passes.
Tick ==
    /\ now < MaxTime
    /\ now' = now + 1
    /\ UNCHANGED <<typeDefs, resolvers, requests, timers, running>>

Next ==
    \/ \E op \in typeDefs : \E args \in ArgsOf(op) : Receive(op, args)
    \/ \E i \in 1..Len(requests) : Execute(i)
    \/ \E tm \in timers : TimerFire(tm)
    \/ Tick

\* src/unnamed/part_000 sets no timer.
Next_part000 ==
    \/ \E op \in typeDefs : \E args \in ArgsOf(op) : Receive(op, args)
    \/ \E i \in 1..Len(requests) : Execute(i)
    \/ Tick

Spec == Init /\ [][Next]_vars

Spec_part000 == Init_part000 /\ [][Next_part000]_vars

\* ------------------------------------------------------ what a caller sees

Settled(i) == requests[i].status = "settled"

Pending(i) == requests[i].status = "pending"

\* The outcome request i ended with.
Outcome(i) == requests[i].outcomes[1]

ErrorClasses == {"GraphQLError", "TypeError", "Error"}

\* How the server wired at ApolloServer({typeDefs, resolvers}) answers for an
\* outcome: a thrown value, or a returned value that is an Error, goes to the
\* response's errors; any other returned value is the field's data.
Surfaced(o) ==
    IF o.how = "throw" \/ o.value.class \in ErrorClasses THEN "failure" ELSE "success"

\* The outcome kinds of the data model, by the shape of the value.
Kind(o) ==
    CASE o.value.class = "GraphQLError" -> "ConformantError"
      [] o.value.class \in {"TypeError", "Error"} -> "NonConformantError"
      [] o.value.class = "Object" -> "MalformedSuccess"
      [] OTHER -> "None"

\* What a caller can read off an outcome: the machine-readable code and the
\* transport status, each possibly absent.
Pair(o) == <<o.value.code, o.value.status>>

Requests == 1..Len(requests)

\* ---------------------------------------------------------------- claims

\* C1: givenCode throws BAD_USER_INPUT with no transport status when code is
\* missing or 0, and otherwise BAD_REQUEST whose transport status is the given
\* code; a status of 500 only ever comes from code = 500.
C1_GivenCode ==
    \A i \in Requests :
        (requests[i].op = "givenCode" /\ Settled(i)) =>
            LET a == requests[i].args
                o == Outcome(i)
            IN /\ Len(requests[i].outcomes) = 1
               /\ o.how = "throw"
               /\ o.value.class = "GraphQLError"
               /\ IF a = << >> \/ a = <<0>>
                  THEN o.value.code = <<"BAD_USER_INPUT">> /\ o.value.status = << >>
                  ELSE o.value.code = <<"BAD_REQUEST">> /\ o.value.status = a
               /\ (o.value.status = <<500>> => a = <<500>>)

\* C1 witness: givenCode has answered for code = 0 and for code = 500.
C1_Witness ==
    \E i, j \in Requests :
        /\ requests[i].op = "givenCode" /\ requests[i].args = <<0>> /\ Settled(i)
        /\ Outcome(i).value.code = <<"BAD_USER_INPUT">>
        /\ requests[j].op = "givenCode" /\ requests[j].args = <<500>> /\ Settled(j)
        /\ Outcome(j).value.status = <<500>>

\* C2, as claimed: a requestTimeout request that carries a time argument t
\* goes from pending to failed: its only outcome is a thrown
\* INTERNAL_SERVER_ERROR, produced after at least t ms, and never a success.
C2_Original ==
    \A i \in Requests :
        (requests[i].op = "requestTimeout" /\ requests[i].args # << >> /\ Settled(i)) =>
            /\ Outcome(i).how = "throw"
            /\ Surfaced(Outcome(i)) = "failure"
            /\ Outcome(i).value.code = <<"INTERNAL_SERVER_ERROR">>
            /\ requests[i].elapsed # << >>
            /\ requests[i].elapsed[1] >= requests[i].args[1]

\* C3: a requestTimeout request without a time argument is never pending and
\* never owns a timer; it ends, in the step that runs it, with a thrown
\* BAD_USER_INPUT.
C3_OmittedTime ==
    \A i \in Requests :
        (requests[i].op = "requestTimeout" /\ requests[i].args = << >>) =>
            /\ ~Pending(i)
            /\ \A tm \in timers : tm.req # i
            /\ requests[i].elapsed = << >>
            /\ Settled(i) =>
                  /\ Outcome(i).how = "throw"
                  /\ Outcome(i).value.class = "GraphQLError"
                  /\ Outcome(i).value.code = <<"BAD_USER_INPUT">>
                  /\ Outcome(i).value.status = << >>

\* C3 witness: a requestTimeout request without time has been answered.
C3_Witness ==
    \E i \in Requests :
        /\ requests[i].op = "requestTimeout" /\ requests[i].args = << >>
        /\ Settled(i)
        /\ Outcome(i).value.code = <<"BAD_USER_INPUT">>

\* C4: each operation without arguments ends with the outcome of the table:
\* class, code, transport status and payload, and networkError without delay.
C4_Argless ==
    \A i \in Requests :
        Settled(i) =>
            LET op == requests[i].op
                v == Outcome(i).value
            IN /\ op = "notFound" =>
                    v.class = "GraphQLError" /\ v.code = <<"NOT_FOUND">>
                    /\ v.status = << >> /\ v.data = << >>
               /\ op = "authenticationFail" =>
                    v.class = "GraphQLError" /\ v.code = <<"FORBIDDEN">>
                    /\ v.status = << >> /\ v.data = << >>
               /\ op = "gqlError" =>
                    v.class = "GraphQLError" /\ v.code = <<"GQL_ERROR">>
                    /\ v.status = << >> /\ v.data = << >>
               /\ op = "networkError" =>
                    v.class = "GraphQLError" /\ v.code = <<"INTERNAL_SERVER_ERROR">>
                    /\ v.status = <<408>> /\ v.data = << >>
                    /\ requests[i].elapsed = << >>
               /\ op = "other" =>
                    v.class = "TypeError" /\ v.code = << >> /\ v.status = << >>
                    /\ v.data = << >>
               /\ op = "nonGqlError" =>
                    v.class = "Error" /\ v.code = << >> /\ v.status = << >>
                    /\ v.data = << >>
               /\ op = "antiPattern" =>
                    v.class = "Object" /\ Outcome(i).how = "return"
                    /\ v.code = << >> /\ v.status = << >>
                    /\ v.data = <<[body |-> [value |-> "", code |-> 404],
                                   errors |-> "null"]>>

\* C4 witness: authenticationFail and networkError have both been answered.
C4_Witness ==
    \E i, j \in Requests :
        /\ requests[i].op = "authenticationFail" /\ Settled(i)
        /\ requests[j].op = "networkError" /\ Settled(j)
        /\ Outcome(j).value.status = <<408>>

\* The arguments the schema and the resolvers' checks accept: a code or a time
\* that is present and not 0.
ValidArgs(i) ==
    requests[i].op \in {"givenCode", "requestTimeout"} =>
        (requests[i].args # << >> /\ requests[i].args # <<0>>)

\* C5, as claimed: no two different operations, called with valid arguments,
\* end with the same (code, transport status) pair.
C5_Original ==
    \A i, j \in Requests :
        (/\ Settled(i) /\ Settled(j) /\ ValidArgs(i) /\ ValidArgs(j)
         /\ requests[i].op # requests[j].op) =>
            Pair(Outcome(i)) # Pair(Outcome(j))

\* The operations whose outcome carries neither a code nor a transport status.
CodelessOps == {"other", "nonGqlError", "antiPattern"}

\* C5, amended: two different operations, called with valid arguments, end
\* with the same (code, transport status) pair only when both are among other,
\* nonGqlError and antiPattern, whose pair is (absent, absent).
C5_Amended ==
    \A i, j \in Requests :
        (/\ Settled(i) /\ Settled(j) /\ ValidArgs(i) /\ ValidArgs(j)
         /\ requests[i].op # requests[j].op) =>
            \/ Pair(Outcome(i)) # Pair(Outcome(j))
            \/ /\ requests[i].op \in CodelessOps
               /\ requests[j].op \in CodelessOps
               /\ Pair(Outcome(i)) = << << >>, << >> >>

\* C5 witness: a timed-out requestTimeout and a networkError, which share the
\* code and differ in the transport status, have both been answered.
C5_Witness ==
    \E i, j \in Requests :
        /\ requests[i].op = "requestTimeout" /\ Settled(i) /\ ValidArgs(i)
        /\ requests[j].op = "networkError" /\ Settled(j)
        /\ Outcome(i).value.code = Outcome(j).value.code
        /\ Outcome(i).value.status # Outcome(j).value.status

C7_NotBlocked ==
    \A i, j \in Requests :
        (Pending(i) /\ requests[j].status = "received") => ENABLED Execute(j)

\* C7 witness: a request for another operation waits while a requestTimeout
\* request is pending and its timer is not due.
C7_Witness ==
    \E i, j \in Requests :
        /\ Pending(i)
        /\ \E tm \in timers : tm.req = i /\ now < tm.at
        /\ requests[j].status = "received"
        /\ requests[j].op # "requestTimeout"

\* The operations whose resolver throws, and those whose resolver returns an
\* Error object.
ThrowingOps == {"givenCode", "requestTimeout", "networkError", "gqlError", "nonGqlError"}

ReturningOps == {"notFound", "authenticationFail", "other"}

\* C8: every operation but antiPattern ends as a failure, by a throw or by a
\* returned Error object as listed; antiPattern ends as a success carrying
\* errors = null, body.code = 404 and body.value = "".
C8_Failures ==
    \A i \in Requests :
        Settled(i) =>
            LET op == requests[i].op
                o == Outcome(i)
            IN /\ op \in ThrowingOps => (o.how = "throw" /\ Surfaced(o) = "failure")
               /\ op \in ReturningOps =>
                    /\ o.how = "return"
                    /\ o.value.class \in ErrorClasses
                    /\ Surfaced(o) = "failure"
               /\ op = "antiPattern" =>
                    /\ Surfaced(o) = "success"
                    /\ Len(o.value.data) = 1
                    /\ o.value.data[1].errors = "null"
                    /\ o.value.data[1].body.code = 404
                    /\ o.value.data[1].body.value = ""
               /\ op \in ThrowingOps \cup ReturningOps \cup {"antiPattern"}

\* C8 witness: antiPattern and an operation that returns an Error object have
\* both been answered.
C8_Witness ==
    \E i, j \in Requests :
        /\ requests[i].op = "antiPattern" /\ Settled(i)
        /\ Surfaced(Outcome(i)) = "success"
        /\ requests[j].op = "other" /\ Settled(j)
        /\ Surfaced(Outcome(j)) = "failure"

\* C9, as claimed: every field of type Query has a resolver, and two answered
\* requests for the same operation ended with the same outcome kind.
C9_Original ==
    /\ typeDefs \subseteq DOMAIN resolvers
    /\ \A i, j \in Requests :
          (Settled(i) /\ Settled(j) /\ requests[i].op = requests[j].op) =>
              Kind(Outcome(i)) = Kind(Outcome(j))

\* C10: a request has at most one outcome, and a request that has one is over:
\* it is neither run again nor left with a timer that could produce another.
C10_OnceOnly ==
    \A i \in Requests :
        /\ Len(requests[i].outcomes) <= 1
        /\ Len(requests[i].outcomes) = 1 =>
              /\ Settled(i)
              /\ \A tm \in timers : tm.req # i
              /\ ~ENABLED Execute(i)
        /\ Settled(i) => Len(requests[i].outcomes) = 1

\* C10 witness: a requestTimeout request has failed on its timer and another
\* request has failed at once.
C10_Witness ==
    \E i, j \in Requests :
        /\ requests[i].op = "requestTimeout" /\ Settled(i)
        /\ requests[i].elapsed # << >>
        /\ Surfaced(Outcome(i)) = "failure"
        /\ requests[j].op = "networkError" /\ Settled(j)

====
